---- MODULE Spec2Model ----
(***************************************************************************)
(* Model of main_streamlit.py: the grammar expander _get_l_system and the  *)
(* turtle interpreter of draw_l_system.                                    *)
(*                                                                         *)
(* Strings are sequences of one-character strings.  A rule mapping is a    *)
(* function whose domain is a set of key strings (sequences).              *)
(*                                                                         *)
(* The floating-point numbers of the turtle geometry are fixed-point      *)
(* numbers: the integer n stands for n/Scale.  Like an IEEE operation,     *)
(* every product and every value of cos and sin is rounded to the nearest  *)
(* number that can be represented, ties to even.                           *)
(***************************************************************************)
EXTENDS Integers, Sequences, FiniteSets, TLC

(* ------------------------------ bounds -------------------------------- *)
MaxAxiomLen == 2
MaxIter == 2
MaxAngleSteps == 3
MaxLength == 2
\* iterations of the fast-growing Koch scenario
MaxKochIter == 1

(* ------------------------------ inputs -------------------------------- *)
Alphabet == {"F", "b", "+", "-", "[", "]", "X"}

\* angles are the multiples of AngleUnit degrees, whose cos and sin the
\* model tabulates
AngleUnit == 30

\* the axioms of the scenarios: Koch's snowflake and a branching sequence
KochAxiom == <<"F", "+", "+", "F", "+", "+", "F">>
BranchAxiom == <<"F", "[", "+", "F", "]", "F">>

Axioms == UNION {[1..n -> Alphabet] : n \in 0..MaxAxiomLen} \cup {BranchAxiom}

Angles == {AngleUnit * k : k \in 1..MaxAngleSteps}

Lengths == 1..MaxLength

NoRules == [k \in {} |-> <<>>]

KochRules == (<<"F">> :> <<"F", "-", "F", "+", "+", "F", "-", "F">>)

RuleMappings ==
    { NoRules,
      (<<"F">> :> <<"F", "[", "+", "F", "]">>),
      (<<"X">> :> <<"F", "-", "[", "X">>) @@ (<<"b">> :> <<>>),
      (<<"F", "X">> :> <<"F">>) @@ (<<"F">> :> <<"+", "F", "-", "+">>),
      (<<>> :> <<"F">>) }

(* ----------------------- rounded arithmetic --------------------------- *)
\* the unit of the fixed-point numbers is 1/Scale
Scale == 1024

\* the number nearest to n/Scale, ties to even
Round(n) ==
    LET q == n \div Scale
        r == n % Scale
    IN  IF 2 * r > Scale \/ (2 * r = Scale /\ q % 2 = 1) THEN q + 1 ELSE q

\* the rounded product of two numbers
Mul(x, y) == Round(x * y)

\* np.radians: degrees to radians, in units of pi/6
Radians(deg) == deg \div AngleUnit

\* cos(k*pi/6) for k = 0..11, rounded
CosTable == <<1024, 887, 512, 0, -512, -887, -1024, -887, -512, 0, 512, 887>>

\* np.cos / np.sin of r*pi/6
Cos(r) == CosTable[(r % 12) + 1]

Sin(r) == Cos(r - 3)

_rot_mat(a) ==
    << <<Cos(Radians(a)), -Sin(Radians(a))>>,
       <<Sin(Radians(a)), Cos(Radians(a))>> >>

\* np.dot of a 2x2 matrix and a 2-vector
Dot(M, v) ==
    << Mul(M[1][1], v[1]) + Mul(M[1][2], v[2]),
       Mul(M[2][1], v[1]) + Mul(M[2][2], v[2]) >>

(* ------------------------------ expander ------------------------------ *)
\* mutant: rules.get(cmd, "") drops a symbol that has no rule
RulesGetNoDefault(r, cmd) == IF <<cmd>> \in DOMAIN r THEN r[<<cmd>>] ELSE <<>>

\* rules.get(cmd, cmd)
RulesGet(r, cmd) == IF <<cmd>> \in DOMAIN r THEN r[<<cmd>>] ELSE <<cmd>>

RECURSIVE InnerLoop(_, _, _, _)
\* for cmd in instructions: new_instructions += rules.get(cmd, cmd)
InnerLoop(ins, r, i, new_instructions) ==
    IF i > Len(ins) THEN new_instructions
    ELSE InnerLoop(ins, r, i + 1, new_instructions \o RulesGet(r, ins[i]))

\* one pass of the outer loop body
Generation(ins, r) == InnerLoop(ins, r, 1, <<>>)

(* ------------------------------- state -------------------------------- *)
\* axiom, rules, iterations, angle, length: the arguments of draw_l_system
\* instructions, gen: the string of _get_l_system and its passes done
\* pc: "expand" (in _get_l_system), "interpret" (in the loop of
\*     draw_l_system), "returned" or "raised"
\* idx: position of the loop of draw_l_system in instructions
\* stack, turtle_pos, turtle_heading: the locals of draw_l_system
\* lines: the ax.plot calls made on the figure, in order
\* result: the lines of the figure handed to the caller by `return fig`
\* error: the exception that left draw_l_system, or "none"
\* trace: history, <<turtle_pos, turtle_heading>> at the start of every
\*     loop pass that ended normally
VARIABLES axiom, rules, iterations, angle, length,
          instructions, gen, pc, idx,
          stack, turtle_pos, turtle_heading, lines,
          result, error, trace

inputs == <<axiom, rules, iterations, angle, length>>

turtle == <<stack, turtle_pos, turtle_heading, lines>>

vars == <<axiom, rules, iterations, angle, length, instructions, gen, pc, idx,
          stack, turtle_pos, turtle_heading, lines, result, error, trace>>

\* np.array([0, 0]) and np.array([0, 1])
InitPos == <<0, 0>>
InitHeading == <<0, Scale>>

Init ==
    /\ \/ axiom \in Axioms /\ rules \in RuleMappings /\ iterations \in 0..MaxIter
       \/ axiom = KochAxiom /\ rules = KochRules /\ iterations \in 0..MaxKochIter
    /\ angle \in Angles
    /\ length \in Lengths
    /\ instructions = axiom
    /\ gen = 0
    /\ pc = "expand"
    /\ idx = 1
    /\ stack = <<>>
    /\ turtle_pos = InitPos
    /\ turtle_heading = InitHeading
    /\ lines = <<>>
    /\ result = <<>>
    /\ error = "none"
    /\ trace = <<>>

(* ----------------------- _get_l_system, stepwise ---------------------- *)
\* mutant: every generation rewrites the axiom again
RewriteAxiom ==
    /\ pc = "expand"
    /\ gen < iterations
    /\ instructions' = Generation(axiom, rules)
    /\ gen' = gen + 1
    /\ UNCHANGED <<inputs, pc, idx, turtle, result, error, trace>>

\* one iteration of `for _ in range(iterations)`
Rewrite ==
    /\ pc = "expand"
    /\ gen < iterations
    /\ instructions' = Generation(instructions, rules)
    /\ gen' = gen + 1
    /\ UNCHANGED <<inputs, pc, idx, turtle, result, error, trace>>

\* `return instructions`, then lines 44-52 of draw_l_system
Expanded ==
    /\ pc = "expand"
    /\ gen >= iterations
    /\ pc' = "interpret"
    /\ idx' = 1
    /\ stack' = <<>>
    /\ turtle_pos' = InitPos
    /\ turtle_heading' = InitHeading
    /\ lines' = <<>>
    /\ UNCHANGED <<inputs, instructions, gen, result, error, trace>>

(* ---------------------- interpreter: the branches -------------------- *)
\* mutant: the chain ends in a bare `else:` that pops
BranchElsePop(c) ==
    IF c = "F" THEN "draw"
    ELSE IF c = "b" THEN "move"
    ELSE IF c = "+" THEN "right"
    ELSE IF c = "-" THEN "left"
    ELSE IF c = "[" THEN "push"
    ELSE "pop"

\* the if/elif chain of the loop body: which branch a symbol selects
Branch(c) ==
    IF c = "F" THEN "draw"
    ELSE IF c = "b" THEN "move"
    ELSE IF c = "+" THEN "right"
    ELSE IF c = "-" THEN "left"
    ELSE IF c = "[" THEN "push"
    ELSE IF c = "]" THEN "pop"
    ELSE "none"

\* new_pos = turtle_pos + length * turtle_heading
NewPos(pos, heading, len) == <<pos[1] + len * heading[1], pos[2] + len * heading[2]>>

\* The branches below act on a turtle record [pos, heading, stack, lines];
\* lines are the ax.plot calls made so far, each <<start, end>>.

\* mutant: `turtle_pos = new_pos` is missing
OnFStay(t, len) ==
    [t EXCEPT !.lines = Append(t.lines, <<t.pos, NewPos(t.pos, t.heading, len)>>)]

OnF(t, len) ==
    [t EXCEPT !.lines = Append(t.lines, <<t.pos, NewPos(t.pos, t.heading, len)>>),
              !.pos = NewPos(t.pos, t.heading, len)]

\* mutant: `b` leaves a trail as `F` does
OnbDraws(t, len) ==
    [t EXCEPT !.lines = Append(t.lines, <<t.pos, NewPos(t.pos, t.heading, len)>>),
              !.pos = NewPos(t.pos, t.heading, len)]

Onb(t, len) == [t EXCEPT !.pos = NewPos(t.pos, t.heading, len)]

OnPlus(t, a) == [t EXCEPT !.heading = Dot(_rot_mat(a), t.heading)]

\* mutant: `-` turns by angle, not by -angle
OnMinusSameSign(t, a) == [t EXCEPT !.heading = Dot(_rot_mat(a), t.heading)]

OnMinus(t, a) == [t EXCEPT !.heading = Dot(_rot_mat(-a), t.heading)]

OnPush(t) == [t EXCEPT !.stack = Append(t.stack, <<t.pos, t.heading>>)]

\* mutant: stack.pop(0) restores the oldest saved state
OnPopOldest(t) ==
    [t EXCEPT !.pos = t.stack[1][1],
              !.heading = t.stack[1][2],
              !.stack = Tail(t.stack)]

\* mutant: stack[-1] restores the newest saved state without removing it
OnPopPeek(t) ==
    [t EXCEPT !.pos = t.stack[Len(t.stack)][1],
              !.heading = t.stack[Len(t.stack)][2]]

\* turtle_pos, turtle_heading = stack.pop(), for a non-empty stack
OnPop(t) ==
    [t EXCEPT !.pos = t.stack[Len(t.stack)][1],
              !.heading = t.stack[Len(t.stack)][2],
              !.stack = SubSeq(t.stack, 1, Len(t.stack) - 1)]

\* list.pop() raises IndexError on an empty list
PopRaises(t) == t.stack = <<>>

(* ------------------------ interpreter, stepwise ----------------------- *)
Turtle ==
    [pos |-> turtle_pos, heading |-> turtle_heading, stack |-> stack, lines |-> lines]

At(br) ==
    /\ pc = "interpret"
    /\ idx <= Len(instructions)
    /\ Branch(instructions[idx]) = br

\* one pass of the loop body that ends normally: the turtle becomes t, and
\* the step records the turtle it started from
Step(t) ==
    /\ turtle_pos' = t.pos
    /\ turtle_heading' = t.heading
    /\ stack' = t.stack
    /\ lines' = t.lines
    /\ idx' = idx + 1
    /\ trace' = Append(trace, <<turtle_pos, turtle_heading>>)
    /\ UNCHANGED <<inputs, instructions, gen, pc, result, error>>

DrawForward == At("draw") /\ Step(OnF(Turtle, length))

MoveForward == At("move") /\ Step(Onb(Turtle, length))

TurnRight == At("right") /\ Step(OnPlus(Turtle, angle))

TurnLeft == At("left") /\ Step(OnMinus(Turtle, angle))

Push == At("push") /\ Step(OnPush(Turtle))

Pop == At("pop") /\ ~PopRaises(Turtle) /\ Step(OnPop(Turtle))

\* mutant: a pop on an empty stack is skipped
PopEmptyIgnored == At("pop") /\ PopRaises(Turtle) /\ Step(Turtle)

\* the IndexError leaves draw_l_system: nothing is returned
PopEmpty ==
    /\ At("pop")
    /\ PopRaises(Turtle)
    /\ pc' = "raised"
    /\ error' = "IndexError"
    /\ UNCHANGED <<inputs, instructions, gen, idx, turtle, result, trace>>

\* no branch of the if/elif chain matches
Skip == At("none") /\ Step(Turtle)

\* `return fig`
Return ==
    /\ pc = "interpret"
    /\ idx > Len(instructions)
    /\ pc' = "returned"
    /\ result' = lines
    /\ UNCHANGED <<inputs, instructions, gen, idx, turtle, error, trace>>

Next ==
    \/ Rewrite
    \/ Expanded
    \/ DrawForward
    \/ MoveForward
    \/ TurnRight
    \/ TurnLeft
    \/ Push
    \/ Pop
    \/ PopEmpty
    \/ Skip
    \/ Return

Spec == Init /\ [][Next]_vars

\* the loops of the program run on until they end
FairSpec == Spec /\ WF_vars(Next)

(* ------------------- the interpreter as a function -------------------- *)
InitTurtle == [pos |-> InitPos, heading |-> InitHeading, stack |-> <<>>, lines |-> <<>>]

RECURSIVE RunFrom(_, _, _, _, _)
\* the loop of draw_l_system from instruction i on, started with turtle t;
\* raised tells whether a pop met an empty stack
RunFrom(ins, i, t, a, len) ==
    IF i > Len(ins) THEN [turtle |-> t, raised |-> FALSE]
    ELSE LET br == Branch(ins[i]) IN
         IF br = "pop" /\ PopRaises(t) THEN [turtle |-> t, raised |-> TRUE]
         ELSE RunFrom(ins, i + 1,
                      CASE br = "draw" -> OnF(t, len)
                        [] br = "move" -> Onb(t, len)
                        [] br = "right" -> OnPlus(t, a)
                        [] br = "left" -> OnMinus(t, a)
                        [] br = "push" -> OnPush(t)
                        [] br = "pop" -> OnPop(t)
                        [] OTHER -> t,
                      a, len)

Interpret(ins, a, len) == RunFrom(ins, 1, InitTurtle, a, len)

(* ======================== properties: expander ======================== *)
Key(s) == <<s>>

RECURSIVE RewriteOnce(_, _)
\* one generation, symbol by symbol from the left
RewriteOnce(s, r) ==
    IF s = <<>> THEN <<>>
    ELSE (IF Key(Head(s)) \in DOMAIN r THEN r[Key(Head(s))] ELSE <<Head(s)>>)
         \o RewriteOnce(Tail(s), r)

RECURSIVE RewriteN(_, _, _)
\* n generations in sequence, each applied to the output of the one before
RewriteN(A, r, n) == IF n = 0 THEN A ELSE RewriteOnce(RewriteN(A, r, n - 1), r)

KochGeneration1 ==
    <<"F", "-", "F", "+", "+", "F", "-", "F", "+", "+",
      "F", "-", "F", "+", "+", "F", "-", "F", "+", "+",
      "F", "-", "F", "+", "+", "F", "-", "F">>

\* C1: after k passes of the outer loop the instructions are the k-fold
\* single-generation rewrite of the axiom, each generation rewriting the
\* output of the one before; the value handed to the interpreter is the
\* `iterations`-fold rewrite, which for 0 iterations is the axiom itself;
\* one generation of Koch's snowflake is the string of scenario 1.
C1_SequentialGenerations ==
    /\ pc = "expand" => instructions = RewriteN(axiom, rules, gen)
    /\ pc # "expand" => instructions = RewriteN(axiom, rules, iterations)
    /\ (pc # "expand" /\ iterations = 0) => instructions = axiom
    /\ (axiom = KochAxiom /\ rules = KochRules /\ gen = 1) => instructions = KochGeneration1

\* a second generation that differs both from the first and from the axiom
C1_Witness ==
    /\ pc = "interpret"
    /\ iterations = 2
    /\ instructions # axiom
    /\ instructions # RewriteOnce(axiom, rules)

HasMalformedKey(r) == \E k \in DOMAIN r : Len(k) # 1

\* C3: a rule mapping with a key that is not a single symbol is rejected
\* with an error: no generation is computed with it and nothing is
\* interpreted.
C3_MalformedRuleRejected ==
    HasMalformedKey(rules) => (gen = 0 /\ pc \notin {"interpret", "returned"})

RECURSIVE GrowthSum(_, _)
\* sum over the symbols s of ins of Len(r[s]) if s is a key, else 1
GrowthSum(ins, r) ==
    IF ins = <<>> THEN 0
    ELSE (IF Key(Head(ins)) \in DOMAIN r THEN Len(r[Key(Head(ins))]) ELSE 1)
         + GrowthSum(Tail(ins), r)

\* C6: every generation has the length given by the growth law applied to
\* the generation before it, and an empty axiom stays empty at every
\* iteration count.
C6_GrowthLaw ==
    /\ [][gen' = gen + 1 => Len(instructions') = GrowthSum(instructions, rules)]_vars
    /\ [](axiom = <<>> => instructions = <<>>)

\* a generation was computed from symbols with and without a rule
C6_Witness ==
    /\ gen >= 1
    /\ \E i \in 1..Len(axiom) : Key(axiom[i]) \in DOMAIN rules
    /\ \E i \in 1..Len(axiom) : Key(axiom[i]) \notin DOMAIN rules
    /\ Len(instructions) # Len(axiom)

(* ====================== properties: interpreter ======================= *)
Commands == {"F", "b", "+", "-", "[", "]"}

RECURSIVE Count(_, _)
\* number of occurrences of symbol c in ins
Count(c, ins) ==
    IF ins = <<>> THEN 0
    ELSE (IF Head(ins) = c THEN 1 ELSE 0) + Count(c, Tail(ins))

Prefix(ins, n) == SubSeq(ins, 1, n)

\* the instructions whose loop pass has ended normally
Processed == Prefix(instructions, Len(trace))

RECURSIVE BalancedFrom(_, _, _)
\* from instruction i on, with d more `[` than `]` before it, no prefix has
\* more `]` than `[`
BalancedFrom(ins, i, d) ==
    IF i > Len(ins) THEN TRUE
    ELSE IF ins[i] = "]" THEN d > 0 /\ BalancedFrom(ins, i + 1, d - 1)
    ELSE BalancedFrom(ins, i + 1, IF ins[i] = "[" THEN d + 1 ELSE d)

\* every prefix has at least as many `[` as `]`
PrefixBalanced(ins) == BalancedFrom(ins, 1, 0)

\* position and heading just before instruction j (for j = Len(trace) + 1:
\* the current ones)
Before(j) == IF j <= Len(trace) THEN trace[j] ELSE <<turtle_pos, turtle_heading>>

\* C2: a `]` met with an empty stack ends the run with an error and
\* nothing is returned, whatever was drawn before it; and no run gets
\* past such a `]`: the instructions a run has processed, and those of a
\* run that returned, keep every prefix balanced.
C2_UnderflowFails ==
    /\ pc = "raised" =>
          /\ error = "IndexError"
          /\ result = <<>>
          /\ instructions[idx] = "]"
          /\ Count("[", Processed) = Count("]", Processed)
    /\ PrefixBalanced(Processed)
    /\ pc = "returned" => (error = "none" /\ PrefixBalanced(instructions))

\* the run failed after it had drawn
C2_Witness == pc = "raised" /\ lines # <<>>

RECURSIVE ScanBack(_, _, _)
\* index of the first `[` at or left of k that is open at depth d, else 0
ScanBack(ins, k, d) ==
    IF k = 0 THEN 0
    ELSE IF ins[k] = "[" THEN (IF d = 0 THEN k ELSE ScanBack(ins, k - 1, d - 1))
    ELSE IF ins[k] = "]" THEN ScanBack(ins, k - 1, d + 1)
    ELSE ScanBack(ins, k - 1, d)

\* index of the `[` that the `]` at j closes
MatchOpen(ins, j) == ScanBack(ins, j - 1, 0)

\* C4: each processed `]` leaves position and heading as they were just
\* before its matching `[` (the most recent `[` not yet closed); in
\* F[+F]F the third segment starts where the first one ends.
C4_LifoRestore ==
    /\ \A j \in 1..Len(trace) :
          instructions[j] = "]" =>
              /\ MatchOpen(instructions, j) > 0
              /\ Before(j + 1) = Before(MatchOpen(instructions, j))
    /\ (pc = "returned" /\ instructions = BranchAxiom) =>
          (Len(result) = 3 /\ result[3][1] = result[1][2])

\* a `]` whose subtree holds a nested pair and moves the turtle
C4_Witness ==
    /\ pc = "returned"
    /\ \E j \in 1..Len(trace) :
          /\ instructions[j] = "]"
          /\ \E k \in (MatchOpen(instructions, j) + 1)..(j - 1) : instructions[k] = "]"
          /\ trace[j] # trace[MatchOpen(instructions, j)]
          /\ trace[j][1] # trace[MatchOpen(instructions, j)][1]

\* C5: the lines drawn so far are as many as the `F` processed so far, the
\* returned drawing has as many segments as the instructions have `F`, and
\* empty instructions return an empty drawing without error.
C5_SegmentCount ==
    /\ Len(lines) = Count("F", Processed)
    /\ pc = "returned" => Len(result) = Count("F", instructions)
    /\ (instructions = <<>> /\ pc # "expand") => (error = "none" /\ lines = <<>>)

\* a returned drawing of instructions with `F`, `b` and other symbols
C5_Witness ==
    /\ pc = "returned"
    /\ Len(result) >= 2
    /\ Count("b", instructions) >= 1
    /\ \E i \in 1..Len(instructions) : instructions[i] \notin {"F", "b"}

\* C7: the k-th line is drawn by the k-th `F`: it starts at the position
\* held just before that `F`, ends at that position plus length times the
\* heading held then, and the position after the `F` is that end point;
\* the returned drawing is the lines in that order.
C7_SegmentGeometry ==
    /\ \A j \in 1..Len(trace) :
          instructions[j] = "F" =>
              LET k == Count("F", Prefix(instructions, j))
                  start == trace[j][1]
                  heading == trace[j][2]
                  end == <<start[1] + length * heading[1],
                           start[2] + length * heading[2]>>
              IN  /\ k <= Len(lines)
                  /\ lines[k] = <<start, end>>
                  /\ Before(j + 1)[1] = end
    /\ pc = "returned" => result = lines

\* segments drawn with different headings, one of them not starting where
\* the segment before it ended
C7_Witness ==
    /\ pc = "returned"
    /\ \E k \in 1..(Len(result) - 1) : result[k + 1][1] # result[k][2]
    /\ \E j \in 1..Len(trace) : instructions[j] = "F" /\ trace[j][2] # InitHeading
\* the instructions without the symbols that are no command
Strip(ins) == SelectSeq(ins, LAMBDA c : c \in Commands)

\* C8: a pass of the loop over a symbol that is no command changes neither
\* position, heading, stack nor lines and raises nothing; so the drawing
\* returned is the drawing of the instructions with all such symbols
\* deleted, and a run that fails also fails without them.
C8_UnknownSymbolNoOp ==
    /\ [][(pc = "interpret" /\ idx <= Len(instructions)
              /\ instructions[idx] \notin Commands)
            => (/\ UNCHANGED <<turtle_pos, turtle_heading, stack, lines>>
                /\ pc' = "interpret"
                /\ error' = "none"
                /\ idx' = idx + 1)]_vars
    /\ [](pc = "returned" =>
            LET r == Interpret(Strip(instructions), angle, length)
            IN  ~r.raised /\ r.turtle.lines = result)
    /\ [](pc = "raised" => Interpret(Strip(instructions), angle, length).raised)

\* a returned, non-empty drawing of instructions that hold such a symbol
C8_Witness ==
    /\ pc = "returned"
    /\ result # <<>>
    /\ Strip(instructions) # instructions
    /\ Strip(instructions) # <<>>

\* the unit vector at d*pi/6
Direction(d) == <<Cos(d), Sin(d)>>

Abs(n) == IF n < 0 THEN -n ELSE n

\* vectors that differ by at most n units of 1/Scale in each coordinate
Within(n, u, v) == Abs(u[1] - v[1]) <= n /\ Abs(u[2] - v[2]) <= n

\* equal up to the rounding of two rotations
Near(u, v) == Within(2, u, v)

\* the same direction, up to the drift that rounding adds over a run
SameDirection(v, d) == Within(Scale \div 16, v, Direction(d))

Turned(j, k) == instructions[j] = "+" /\ instructions[k] = "-"

TurnPair(j) == Turned(j, j + 1) \/ Turned(j + 1, j)

\* `+` turns the heading by angle and `-` by -angle, and both leave
\* position, stack and lines alone
TurnStep ==
    (pc = "interpret" /\ idx <= Len(instructions) /\ instructions[idx] \in {"+", "-"})
    => /\ UNCHANGED <<turtle_pos, stack, lines>>
       /\ \E d \in 0..11 :
             /\ SameDirection(turtle_heading, d)
             /\ SameDirection(turtle_heading',
                              IF instructions[idx] = "+"
                              THEN d + angle \div AngleUnit
                              ELSE d - angle \div AngleUnit)

\* C9 as claimed: a `+` directly followed by a `-`, or a `-` directly
\* followed by a `+`, gives back exactly the heading held before the pair.
C9_ExactRoundTrip ==
    \A j \in 1..(Len(trace) - 1) : TurnPair(j) => Before(j + 2) = Before(j)

\* C9, amended: `+` turns the heading by angle and `-` by the negated
\* angle, both leaving position, stack and lines alone; a `+` directly
\* followed by a `-`, or a `-` directly followed by a `+`, leaves the
\* position as it was and the heading as it was up to rounding, and so does
\* rotating any heading by angle and then by -angle.
C9_TurnRoundTrip ==
    /\ [][TurnStep]_vars
    /\ [](\A j \in 1..(Len(trace) - 1) :
            TurnPair(j) => (/\ Before(j + 2)[1] = Before(j)[1]
                            /\ Near(Before(j + 2)[2], Before(j)[2])))
    /\ [](Near(Dot(_rot_mat(-angle), Dot(_rot_mat(angle), turtle_heading)),
               turtle_heading))

\* a pair of opposite turns was processed, starting from a heading that an
\* earlier turn had produced
C9_Witness ==
    /\ \E j \in 1..(Len(trace) - 1) :
          /\ TurnPair(j)
          /\ Before(j + 1)[2] # Before(j)[2]
          /\ Before(j)[2] # InitHeading

RECURSIVE ScanForward(_, _, _)
\* index of the first `]` at or right of k that closes depth d, else 0
ScanForward(ins, k, d) ==
    IF k > Len(ins) THEN 0
    ELSE IF ins[k] = "]" THEN (IF d = 0 THEN k ELSE ScanForward(ins, k + 1, d - 1))
    ELSE IF ins[k] = "[" THEN ScanForward(ins, k + 1, d + 1)
    ELSE ScanForward(ins, k + 1, d)

Unmatched(ins, i) == ins[i] = "[" /\ ScanForward(ins, i + 1, 0) = 0

RECURSIVE DropFrom(_, _)
DropFrom(ins, i) ==
    IF i > Len(ins) THEN <<>>
    ELSE (IF Unmatched(ins, i) THEN <<>> ELSE <<ins[i]>>) \o DropFrom(ins, i + 1)

\* the instructions without the `[` that are never closed
DropUnmatched(ins) == DropFrom(ins, 1)

\* C10: the stack depth is the number of `[` minus the number of `]`
\* processed so far and only `[` and `]` change the stack; a run fails only
\* on instructions with a prefix holding more `]` than `[`, and a run over
\* instructions whose prefixes are all balanced goes on to return; what it
\* returns, and the turtle it ends with, are those of the instructions
\* without their unmatched `[`.
C10_StackDepth ==
    /\ [](Len(stack) = Count("[", Processed) - Count("]", Processed))
    /\ [][stack' # stack =>
            (pc = "interpret" /\ instructions[idx] \in {"[", "]"})]_vars
    /\ [](pc = "raised" => ~PrefixBalanced(instructions))
    /\ [](pc = "returned" =>
            LET r == Interpret(DropUnmatched(instructions), angle, length)
            IN  /\ ~r.raised
                /\ r.turtle.stack = <<>>
                /\ r.turtle.lines = result
                /\ r.turtle.pos = turtle_pos
                /\ r.turtle.heading = turtle_heading)
    /\ [](pc = "interpret" /\ PrefixBalanced(instructions) => <>(pc = "returned"))

\* a run returned with saved states left on the stack, after drawing and
\* after matched pairs
C10_Witness ==
    /\ pc = "returned"
    /\ stack # <<>>
    /\ result # <<>>
    /\ Count("]", instructions) >= 1

(* --------------------------- well-formedness -------------------------- *)
\* the heading stays near a multiple of pi/6 and the function Interpret
\* agrees with the steps
ModelSanity ==
    /\ \E d \in 0..11 : SameDirection(turtle_heading, d)
    /\ pc = "returned" =>
          Interpret(instructions, angle, length) = [turtle |-> Turtle, raised |-> FALSE]
    /\ pc = "raised" =>
          Interpret(instructions, angle, length) = [turtle |-> Turtle, raised |-> TRUE]

====
